---- MODULE Spec2Model ----
(***************************************************************************)
(* Credit ledger of the virtual-games server (src/server.js): the lowdb    *)
(* JSON store, the wallet, withdrawal, voting and play handlers, and the   *)
(* way Express and lowdb schedule them.                                    *)
(*                                                                         *)
(* Spec     : requests are served one at a time; every action is one whole *)
(*            handler, from its db.read() to its db.write().               *)
(* SpecConc : requests overlap; a handler is suspended at `await db.read()`*)
(*            and resumed later, as the Node event loop allows.            *)
(*                                                                         *)
(* Numbers: credits and votes are integers.  Timestamps (new Date()) are   *)
(* the number of the request that took them; 0 stands for a timestamp that *)
(* was never set.  uuidv4() ids are the position of the record in its      *)
(* list.  An optional numeric body field is a tuple: <<>> when the field   *)
(* is absent or not a number, <<n>> when it is the number n.  Odds and the *)
(* random sample are in hundredths (0.1 is 10).                            *)
(***************************************************************************)
EXTENDS Integers, Sequences, FiniteSets, TLC

VARIABLES db, last, nops, reqs, serial

vars == <<db, last, nops, reqs, serial>>

\* ---------------------------------------------------------------- bounds
MaxOps == 3
MaxPhotos == 2
MaxConcOps == 2
MaxLen == 3

\* ------------------------------------------------------ program constants
costPerVote == 10
adminCredits == 0
demoCredits == 1000

UserIds == {"admin", "demo"}
Challenges == {"challenge-1"}

\* ------------------------------------------------------------ the store
\* initDB: the store a first start writes (no gameConfigs, gamePlays or
\* systemFees key exists; an absent list is the empty list).
SeedData ==
  [ users       |-> [u \in UserIds |-> IF u = "admin" THEN adminCredits ELSE demoCredits],
    withdraws   |-> <<>>,
    photos      |-> << [id |-> 1, challengeId |-> "challenge-1", votes |-> 0] >>,
    gamePlays   |-> <<>>,
    systemFees  |-> <<>>,
    gameConfigs |-> {} ]

\* initDB keeps a db.json that already exists (db.data || ..., seedDone):
\* the only way a deployment gets game configurations is a db.json that
\* carries them.
ConfiguredData ==
  [ SeedData EXCEPT !.gameConfigs =
      { [gameId |-> "game-1", enabled |-> TRUE, cost |-> 100, feePercent |-> 10,
         odds |-> <<10, 20, 70>>, payoutMultipliers |-> <<5, 2, 0>>],
        [gameId |-> "game-2", enabled |-> FALSE, cost |-> 100, feePercent |-> 5,
         odds |-> <<50>>, payoutMultipliers |-> <<2>>] } ]

\* ------------------------------------------------------------- helpers
Max(a, b) == IF a >= b THEN a ELSE b

\* Number(x) || dflt for an optional numeric body field
NumberOr(x, dflt) == IF Len(x) = 0 \/ x[1] = 0 THEN dflt ELSE x[1]

\* array.find(pred) over a list whose ids are positions: 0 when none
FindIdx(list, id) == IF id \in DOMAIN list THEN id ELSE 0

\* db.data.gameConfigs && db.data.gameConfigs[gameId]
cfgOf(d, gameId) == {c \in d.gameConfigs : c.gameId = gameId}

\* a response without a body of interest: the store the handler leaves in
\* db.data and the status it answers
Reply(d, resp) == [db |-> d, resp |-> resp, body |-> <<>>]

\* ------------------------------------------------------------- handlers
\* POST /api/wallet/deposit
deposit(d, u, amount) ==
  IF amount <= 0 THEN Reply(d, "Invalid amount")
  ELSE Reply([d EXCEPT !.users[u] = @ + amount], "ok")

\* withdraw, were it to skip the check of the balance against the amount
withdrawNoFundsCheck(d, u, amount, now) ==
  IF amount <= 0 THEN Reply(d, "Invalid amount")
  ELSE Reply([d EXCEPT !.withdraws = Append(@,
                [id |-> Len(d.withdraws) + 1, userId |-> u, amount |-> amount,
                 status |-> "pending", createdAt |-> now, processedAt |-> 0])],
             "ok")

\* withdraw, were it to reserve the requested credits at request time
withdrawReserving(d, u, amount, now) ==
  IF amount <= 0 THEN Reply(d, "Invalid amount")
  ELSE IF d.users[u] < amount THEN Reply(d, "Insufficient credits")
  ELSE Reply([d EXCEPT !.users[u] = @ - amount,
                       !.withdraws = Append(@,
                [id |-> Len(d.withdraws) + 1, userId |-> u, amount |-> amount,
                 status |-> "pending", createdAt |-> now, processedAt |-> 0])],
             "ok")

\* POST /api/wallet/withdraw
withdraw(d, u, amount, now) ==
  IF amount <= 0 THEN Reply(d, "Invalid amount")
  ELSE IF d.users[u] < amount THEN Reply(d, "Insufficient credits")
  ELSE Reply([d EXCEPT !.withdraws = Append(@,
                [id |-> Len(d.withdraws) + 1, userId |-> u, amount |-> amount,
                 status |-> "pending", createdAt |-> now, processedAt |-> 0])],
             "ok")

\* decide, were it to debit the user whatever the decision
decideDebitsAlways(d, id, action, now) ==
  LET w == FindIdx(d.withdraws, id) IN
  IF w = 0 THEN Reply(d, "Not found")
  ELSE IF action \notin {"approve", "reject"} THEN Reply(d, "Bad action")
  ELSE LET status == IF action = "approve" THEN "approved" ELSE "rejected"
           d1 == [d EXCEPT !.withdraws[w].status = status,
                           !.withdraws[w].processedAt = now]
       IN Reply([d1 EXCEPT !.users[d.withdraws[w].userId] = @ - d.withdraws[w].amount], "ok")

\* POST /api/admin/withdraws/:id/:action
decide(d, id, action, now) ==
  LET w == FindIdx(d.withdraws, id) IN
  IF w = 0 THEN Reply(d, "Not found")
  ELSE IF action \notin {"approve", "reject"} THEN Reply(d, "Bad action")
  ELSE LET status == IF action = "approve" THEN "approved" ELSE "rejected"
           d1 == [d EXCEPT !.withdraws[w].status = status,
                           !.withdraws[w].processedAt = now]
           d2 == IF status = "approved"
                 THEN [d1 EXCEPT !.users[d.withdraws[w].userId] = @ - d.withdraws[w].amount]
                 ELSE d1
       IN Reply(d2, "ok")

\* POST /api/challenges/:id/upload
upload(d, u, challengeId, now) ==
  IF challengeId \notin Challenges THEN Reply(d, "Challenge not found")
  ELSE Reply([d EXCEPT !.photos = Append(@,
                [id |-> Len(d.photos) + 1, challengeId |-> challengeId, votes |-> 0])],
             "ok")

\* vote, were it to take the number of votes without Math.max(1, ...)
voteNoClamp(d, u, challengeId, photoId, amount) ==
  LET votes == NumberOr(amount, 1)
      p == FindIdx(d.photos, photoId)
      totalCost == votes * costPerVote
  IN
  IF p = 0 \/ d.photos[p].challengeId # challengeId THEN Reply(d, "Photo not found")
  ELSE IF d.users[u] < totalCost THEN Reply(d, "Insufficient credits")
  ELSE Reply([d EXCEPT !.users[u] = @ - totalCost,
                       !.photos[p].votes = @ + votes], "ok")

\* vote, were it to skip the check of the balance against totalCost
voteNoFundsCheck(d, u, challengeId, photoId, amount) ==
  LET votes == Max(1, NumberOr(amount, 1))
      p == FindIdx(d.photos, photoId)
      totalCost == votes * costPerVote
  IN
  IF p = 0 \/ d.photos[p].challengeId # challengeId THEN Reply(d, "Photo not found")
  ELSE Reply([d EXCEPT !.users[u] = @ - totalCost,
                       !.photos[p].votes = @ + votes], "ok")

\* POST /api/challenges/:id/photos/:photoId/vote
vote(d, u, challengeId, photoId, amount) ==
  LET votes == Max(1, NumberOr(amount, 1))
      p == FindIdx(d.photos, photoId)
      totalCost == votes * costPerVote
  IN
  IF p = 0 \/ d.photos[p].challengeId # challengeId THEN Reply(d, "Photo not found")
  ELSE IF d.users[u] < totalCost THEN Reply(d, "Insufficient credits")
  ELSE Reply([d EXCEPT !.users[u] = @ - totalCost,
                       !.photos[p].votes = @ + votes], "ok")

\* POST /api/play, the handler registered first (caller supplies cost and result)
play1(d, u, body, now) ==
  IF body.gameId = "" \/ Len(body.cost) = 0 THEN Reply(d, "Missing params")
  ELSE LET cost == body.cost[1]
           award == NumberOr(body.result, 0)
           credits == d.users[u] - cost + (IF award > 0 THEN award ELSE 0)
       IN
       IF d.users[u] < cost THEN Reply(d, "Insufficient credits")
       ELSE Reply([d EXCEPT !.users[u] = credits,
                            !.gamePlays = Append(@,
                               [id |-> Len(d.gamePlays) + 1, userId |-> u,
                                gameId |-> body.gameId, cost |-> cost,
                                award |-> award, createdAt |-> now])],
                  "ok")

\* the odds walk, were it to compare rnd < cumulative
RECURSIVE walkStrict(_, _, _, _, _)
walkStrict(odds, multipliers, rnd, i, cumulative) ==
  IF i > Len(odds) THEN 0
  ELSE IF rnd < cumulative + odds[i]
       THEN (IF i \in DOMAIN multipliers THEN multipliers[i] ELSE 0)
       ELSE walkStrict(odds, multipliers, rnd, i + 1, cumulative + odds[i])

\* the odds walk of the second play handler: the multiplier of the first
\* index whose cumulative odds reach rnd, 0 when none does
RECURSIVE walk(_, _, _, _, _)
walk(odds, multipliers, rnd, i, cumulative) ==
  IF i > Len(odds) THEN 0
  ELSE IF rnd <= cumulative + odds[i]
       THEN (IF i \in DOMAIN multipliers THEN multipliers[i] ELSE 0)
       ELSE walk(odds, multipliers, rnd, i + 1, cumulative + odds[i])

\* POST /api/play, the handler registered second (configuration, fee, odds)
play2(d, u, body, rnd, now) ==
  IF body.gameId = "" THEN Reply(d, "Missing gameId")
  ELSE IF cfgOf(d, body.gameId) = {} THEN Reply(d, "Game config not found")
  ELSE LET cfg == CHOOSE c \in cfgOf(d, body.gameId) : TRUE
           cost == cfg.cost
           fee == (cost * cfg.feePercent) \div 100
           effectiveStake == cost - fee
           chosenMultiplier == walk(cfg.odds, cfg.payoutMultipliers, rnd, 1, 0)
           award == effectiveStake * chosenMultiplier
           credits == d.users[u] - cost + (IF award > 0 THEN award ELSE 0)
       IN
       IF ~cfg.enabled THEN Reply(d, "Game is disabled")
       ELSE IF d.users[u] < cost THEN Reply(d, "Insufficient credits")
       ELSE Reply([d EXCEPT !.users[u] = credits,
                            !.systemFees = Append(@,
                               [id |-> Len(d.systemFees) + 1, gameId |-> body.gameId,
                                fee |-> fee, collectedAt |-> now]),
                            !.gamePlays = Append(@,
                               [id |-> Len(d.gamePlays) + 1, userId |-> u,
                                gameId |-> body.gameId, cost |-> cost, fee |-> fee,
                                effectiveStake |-> effectiveStake,
                                multiplier |-> chosenMultiplier,
                                award |-> award, createdAt |-> now])],
                  "ok")

\* Express routing of POST /api/play: the handlers run in registration
\* order and a later one runs only when the earlier one calls next().
\* The first handler answers every request and never calls next().
firstPlayCallsNext == FALSE

play(d, u, body, rnd, now) ==
  IF firstPlayCallsNext THEN play2(d, u, body, rnd, now) ELSE play1(d, u, body, now)

\* a field of the PUT payload: absent (payload.f === undefined) or present
Patched(old, field) == IF Len(field) = 0 THEN old ELSE field[1]

\* updateGameConfig, were it to create the configuration it does not find
updateGameConfigUpsert(d, gameId, payload) ==
  LET cur == IF cfgOf(d, gameId) = {}
             THEN [gameId |-> gameId, enabled |-> FALSE, cost |-> 0, feePercent |-> 0,
                   odds |-> <<>>, payoutMultipliers |-> <<>>]
             ELSE CHOOSE c \in cfgOf(d, gameId) : TRUE
      new == [cur EXCEPT
                !.cost = Patched(@, payload.cost),
                !.feePercent = Patched(@, payload.feePercent),
                !.payoutMultipliers = Patched(@, payload.payoutMultipliers),
                !.odds = Patched(@, payload.odds),
                !.enabled = Patched(@, payload.enabled)]
  IN [db |-> [d EXCEPT !.gameConfigs = (@ \ {cur}) \cup {new}],
      resp |-> "ok", body |-> <<new>>]

\* updateGameConfig, were it to assign enabled = !!payload.enabled even
\* when the payload has no enabled field
updateGameConfigResetsEnabled(d, gameId, payload) ==
  IF cfgOf(d, gameId) = {} THEN Reply(d, "Game not found")
  ELSE LET cur == CHOOSE c \in cfgOf(d, gameId) : TRUE
           new == [cur EXCEPT
                     !.cost = Patched(@, payload.cost),
                     !.feePercent = Patched(@, payload.feePercent),
                     !.payoutMultipliers = Patched(@, payload.payoutMultipliers),
                     !.odds = Patched(@, payload.odds),
                     !.enabled = Patched(FALSE, payload.enabled)]
       IN [db |-> [d EXCEPT !.gameConfigs = (@ \ {cur}) \cup {new}],
           resp |-> "ok", body |-> <<new>>]

\* PUT /api/admin/games/:gameId
updateGameConfig(d, gameId, payload) ==
  IF cfgOf(d, gameId) = {} THEN Reply(d, "Game not found")
  ELSE LET cur == CHOOSE c \in cfgOf(d, gameId) : TRUE
           new == [cur EXCEPT
                     !.cost = Patched(@, payload.cost),
                     !.feePercent = Patched(@, payload.feePercent),
                     !.payoutMultipliers = Patched(@, payload.payoutMultipliers),
                     !.odds = Patched(@, payload.odds),
                     !.enabled = Patched(@, payload.enabled)]
       IN [db |-> [d EXCEPT !.gameConfigs = (@ \ {cur}) \cup {new}],
           resp |-> "ok", body |-> <<new>>]

\* getGameConfig, were it to answer the stored configuration as it is
getGameConfigFull(d, gameId) ==
  IF cfgOf(d, gameId) = {} THEN Reply(d, "Not found")
  ELSE [db |-> d, resp |-> "ok", body |-> <<CHOOSE c \in cfgOf(d, gameId) : TRUE>>]

\* GET /api/gameconfig/:gameId
getGameConfig(d, gameId) ==
  IF cfgOf(d, gameId) = {} THEN Reply(d, "Not found")
  ELSE LET cfg == CHOOSE c \in cfgOf(d, gameId) : TRUE
           safe == [gameId |-> cfg.gameId, cost |-> cfg.cost,
                    payoutMultipliers |-> cfg.payoutMultipliers,
                    enabled |-> cfg.enabled]
       IN [db |-> d, resp |-> "ok", body |-> <<safe>>]

\* ------------------------------------------------------------- requests
DepositAmounts == {0, 5}
WithdrawAmounts == {0, 50}
Actions == {"approve", "reject", "hold"}
VoteAmounts == {<<>>, <<0>>, <<-2>>, <<3>>}
PlayBodies ==
  { [gameId |-> "game-1", cost |-> <<970>>, result |-> <<>>],
    [gameId |-> "game-1", cost |-> <<100>>, result |-> <<180>>],
    [gameId |-> "game-2", cost |-> <<970>>, result |-> <<>>],
    [gameId |-> "game-9", cost |-> <<100>>, result |-> <<>>],
    [gameId |-> "game-1", cost |-> <<0>>, result |-> <<180>>],
    [gameId |-> "game-1", cost |-> <<>>, result |-> <<>>],
    [gameId |-> "", cost |-> <<100>>, result |-> <<>>] }
Rnds == {5, 99}
NoPatch == [cost |-> <<>>, feePercent |-> <<>>, payoutMultipliers |-> <<>>,
            odds |-> <<>>, enabled |-> <<>>]
Payloads ==
  { [NoPatch EXCEPT !.cost = <<150>>],
    [NoPatch EXCEPT !.odds = << <<50>> >>],
    [NoPatch EXCEPT !.enabled = <<FALSE>>],
    [NoPatch EXCEPT !.feePercent = <<5>>, !.payoutMultipliers = << <<3, 1, 0>> >>] }
ConfigIds == {"game-1", "game-9"}

Requests ==
       [op : {"deposit"}, user : UserIds, amount : DepositAmounts]
  \cup [op : {"withdraw"}, user : UserIds, amount : WithdrawAmounts]
  \cup [op : {"decide"}, user : {"admin"}, id : 1..2, action : Actions]
  \cup [op : {"upload"}, user : UserIds, challengeId : {"challenge-1", "challenge-9"}]
  \cup [op : {"vote"}, user : UserIds, challengeId : {"challenge-1"},
        photoId : 1..(MaxPhotos + 1), amount : VoteAmounts]
  \cup [op : {"play"}, user : UserIds, body : PlayBodies, rnd : Rnds]
  \cup [op : {"updateGameConfig"}, user : {"admin"}, gameId : ConfigIds, payload : Payloads]
  \cup [op : {"getGameConfig"}, gameId : ConfigIds]

\* the handler a request is routed to, run on the store d at time now
Handle(d, r, now) ==
  CASE r.op = "deposit"  -> deposit(d, r.user, r.amount)
    [] r.op = "withdraw" -> withdraw(d, r.user, r.amount, now)
    [] r.op = "decide"   -> decide(d, r.id, r.action, now)
    [] r.op = "upload"   -> upload(d, r.user, r.challengeId, now)
    [] r.op = "vote"     -> vote(d, r.user, r.challengeId, r.photoId, r.amount)
    [] r.op = "play"     -> play(d, r.user, r.body, r.rnd, now)
    [] r.op = "updateGameConfig" -> updateGameConfig(d, r.gameId, r.payload)
    [] r.op = "getGameConfig"    -> getGameConfig(d, r.gameId)

\* the handler reaches `await db.write()`: it did not return early, and it
\* is not the read-only GET
Writes(r, out) == out.resp = "ok" /\ r.op # "getGameConfig"

NoRequest == [op |-> "none", resp |-> "none", body |-> <<>>]

Init ==
  /\ db \in {SeedData, ConfiguredData}
  /\ last = NoRequest
  /\ nops = 0
  /\ reqs = {}
  /\ serial = db

\* requests answered so far, plus one: the time of the next new Date()
Now == nops - Cardinality(reqs) + 1

\* one request served from db.read() to db.write() with nothing in between
Serve(r) ==
  /\ nops < MaxOps
  /\ r.op = "upload" => Len(db.photos) < MaxPhotos
  /\ LET out == Handle(db, r, Now) IN
       /\ db' = IF Writes(r, out) THEN out.db ELSE db
       /\ last' = [op |-> r.op, req |-> r, resp |-> out.resp, body |-> out.body]
  /\ nops' = nops + 1
  /\ serial' = IF Writes(r, Handle(serial, r, Now))
               THEN Handle(serial, r, Now).db ELSE serial
  /\ UNCHANGED reqs

Deposit  == \E r \in Requests : r.op = "deposit"  /\ Serve(r)
Withdraw == \E r \in Requests : r.op = "withdraw" /\ Serve(r)
Decide   == \E r \in Requests : r.op = "decide"   /\ Serve(r)
Upload   == \E r \in Requests : r.op = "upload"   /\ Serve(r)
Vote     == \E r \in Requests : r.op = "vote"     /\ Serve(r)
Play     == \E r \in Requests : r.op = "play"     /\ Serve(r)
UpdateGameConfig == \E r \in Requests : r.op = "updateGameConfig" /\ Serve(r)
GetGameConfig    == \E r \in Requests : r.op = "getGameConfig"    /\ Serve(r)

Next ==
  \/ Deposit \/ Withdraw \/ Decide \/ Upload \/ Vote \/ Play
  \/ UpdateGameConfig \/ GetGameConfig

Spec == Init /\ [][Next]_vars

\* ------------------------------------------------- overlapping requests
\* A handler runs until `await db.read()`; lowdb's read() replaces db.data
\* by what the file holds at that time.  The handler is resumed later, on
\* its own copy, runs without interruption up to `await db.write()`, and
\* write() serialises that copy over the file.  No handler takes a lock.
Receive ==
  \E r \in Requests :
    /\ nops < MaxConcOps
    /\ r.op = "upload" =>
         Len(db.photos) + Cardinality({q \in reqs : q.req.op = "upload"}) < MaxPhotos
    /\ reqs' = reqs \cup {[n |-> nops + 1, req |-> r, data |-> db]}
    /\ nops' = nops + 1
    /\ UNCHANGED <<db, last, serial>>

Resume ==
  \E q \in reqs :
    /\ LET out == Handle(q.data, q.req, Now) IN
         /\ db' = IF Writes(q.req, out) THEN out.db ELSE db
         /\ last' = [op |-> q.req.op, req |-> q.req, resp |-> out.resp, body |-> out.body]
    /\ serial' = IF Writes(q.req, Handle(serial, q.req, Now))
                 THEN Handle(serial, q.req, Now).db ELSE serial
    /\ reqs' = reqs \ {q}
    /\ UNCHANGED nops

NextConc == Receive \/ Resume

SpecConc == Init /\ [][NextConc]_vars

\* ------------------------------------------- the outcome walk on its own
\* The second play handler run directly on a store whose db.json carries
\* one enabled configuration of game-1, for every odds table and every
\* index-aligned multiplier table up to MaxLen entries and every sample.
OddsValues == {0, 10, 20, 70}
MultiplierValues == {0, 2, 5}
Samples == {0, 5, 10, 30, 31, 99}

Tables(values) == UNION {[1..n -> values] : n \in 0..MaxLen}

WalkData(odds, multipliers) ==
  [ SeedData EXCEPT !.gameConfigs =
      { [gameId |-> "game-1", enabled |-> TRUE, cost |-> 100, feePercent |-> 10,
         odds |-> odds, payoutMultipliers |-> multipliers] } ]

InitWalk ==
  /\ \E odds \in Tables(OddsValues), multipliers \in Tables(MultiplierValues) :
       /\ Len(odds) = Len(multipliers)
       /\ db = WalkData(odds, multipliers)
  /\ last = NoRequest
  /\ nops = 0
  /\ reqs = {}
  /\ serial = db

DrawOutcome ==
  \E rnd \in Samples :
    LET r == [op |-> "play", user |-> "demo", rnd |-> rnd,
              body |-> [gameId |-> "game-1", cost |-> <<>>, result |-> <<>>]]
        out == play2(db, r.user, r.body, r.rnd, Now)
    IN /\ nops = 0
       /\ db' = out.db
       /\ last' = [op |-> r.op, req |-> r, resp |-> out.resp, body |-> out.body]
       /\ nops' = nops + 1
       /\ serial' = db'
       /\ UNCHANGED reqs

NextWalk == DrawOutcome

SpecWalk == InitWalk /\ [][NextWalk]_vars

\* ================================================================ claims
UnitCost == 10
GameIds == {b.gameId : b \in PlayBodies} \ {""}

\* the request served by the step is a well-formed play request
PlayStep == last'.op = "play" /\ last'.req.body.gameId # "" /\ Len(last'.req.body.cost) > 0

\* C1: after any sequence of operations every account's balance is >= 0.
BalanceNeverNegative == \A u \in UserIds : db.users[u] >= 0

\* C2: a request that is approved or rejected is never changed again: a
\* further approve or reject call on it fails and leaves its status, its
\* processing timestamp and the balances as they were.
DecidedOnce ==
  [][ (/\ last'.op = "decide"
       /\ last'.req.action \in {"approve", "reject"}
       /\ last'.req.id \in DOMAIN db.withdraws
       /\ db.withdraws[last'.req.id].status # "pending")
      => (/\ last'.resp # "ok"
          /\ db'.withdraws[last'.req.id].status = db.withdraws[last'.req.id].status
          /\ db'.withdraws[last'.req.id].processedAt = db.withdraws[last'.req.id].processedAt
          /\ db'.users = db.users) ]_vars

\* C3: approving a pending request whose amount exceeds the user's current
\* balance fails with insufficient funds; the request stays pending and the
\* balance is unchanged.
ApproveNeedsFunds ==
  [][ (/\ last'.op = "decide"
       /\ last'.req.action = "approve"
       /\ last'.req.id \in DOMAIN db.withdraws
       /\ db.withdraws[last'.req.id].status = "pending"
       /\ db.withdraws[last'.req.id].amount > db.users[db.withdraws[last'.req.id].userId])
      => (/\ last'.resp = "Insufficient credits"
          /\ db'.withdraws[last'.req.id].status = "pending"
          /\ db'.users = db.users) ]_vars

\* C4: no lost update: once every overlapping request has been answered,
\* the persisted store is the one obtained by applying the requests one
\* after the other, in the order in which they wrote.
NoLostUpdate == reqs = {} => db = serial

\* C5: every successful play charges the configured cost, credits
\* award = floor((cost - fee) * multiplier) with fee = floor(cost *
\* feePercent / 100), and its PlayRecord stores cost, fee, effectiveStake,
\* multiplier and award.
PlayFollowsConfig ==
  [][ (PlayStep /\ last'.resp = "ok")
      => (/\ cfgOf(db, last'.req.body.gameId) # {}
          /\ Len(db'.gamePlays) = Len(db.gamePlays) + 1
          /\ LET cfg == CHOOSE c \in cfgOf(db, last'.req.body.gameId) : TRUE
                 rec == db'.gamePlays[Len(db'.gamePlays)]
                 u == last'.req.user
                 fee == (cfg.cost * cfg.feePercent) \div 100
             IN /\ {"cost", "fee", "effectiveStake", "multiplier", "award"} \subseteq DOMAIN rec
                /\ rec.cost = cfg.cost
                /\ rec.fee = fee
                /\ rec.effectiveStake = cfg.cost - fee
                /\ \E i \in DOMAIN cfg.payoutMultipliers : rec.multiplier = cfg.payoutMultipliers[i]
                /\ rec.award = (cfg.cost - fee) * rec.multiplier
                /\ db'.users[u] = db.users[u] - cfg.cost + rec.award) ]_vars

\* C6: a play fails with GameNotFound when the game has no configuration,
\* with GameDisabled when its configuration is disabled and with
\* InsufficientFunds when the balance is below the configured cost, and
\* then nothing is persisted.
PlayRefused ==
  [][ PlayStep =>
      LET cfgs == cfgOf(db, last'.req.body.gameId)
          cfg == CHOOSE c \in cfgs : TRUE
      IN /\ cfgs = {} => (last'.resp = "Game config not found" /\ db' = db)
         /\ (cfgs # {} /\ ~cfg.enabled) => (last'.resp = "Game is disabled" /\ db' = db)
         /\ (cfgs # {} /\ cfg.enabled /\ db.users[last'.req.user] < cfg.cost)
              => (last'.resp = "Insufficient credits" /\ db' = db) ]_vars

\* C7: for each game the FeeRecords and the PlayRecords reconcile: every
\* play of the game has one FeeRecord and one PlayRecord carrying the same
\* fee, so the two fee sums are equal.
FeesReconcile ==
  \A g \in GameIds :
    LET plays == SelectSeq(db.gamePlays, LAMBDA r : r.gameId = g)
        fees == SelectSeq(db.systemFees, LAMBDA r : r.gameId = g)
    IN /\ Len(plays) = Len(fees)
       /\ \A i \in DOMAIN plays : "fee" \in DOMAIN plays[i] /\ plays[i].fee = fees[i].fee

\* C8: a successful vote debits the voter by count * 10 and adds count to
\* the photo's tally, count being 1 when it is absent or not positive;
\* no other account, photo or record changes.
VoteEffect ==
  [][ (last'.op = "vote" /\ last'.resp = "ok")
      => LET r == last'.req
             count == IF Len(r.amount) = 0 \/ r.amount[1] <= 0 THEN 1 ELSE r.amount[1]
         IN /\ r.photoId \in DOMAIN db.photos
            /\ db'.users = [db.users EXCEPT ![r.user] = @ - count * UnitCost]
            /\ db'.photos = [db.photos EXCEPT ![r.photoId].votes = @ + count]
            /\ db' = [db EXCEPT !.users = db'.users, !.photos = db'.photos] ]_vars

VoteEffectWitness ==
  /\ last.op = "vote" /\ last.resp = "ok"
  /\ last.req.amount = <<-2>>
  /\ last.req.user = "demo"
  /\ Len(db.photos) = 2
  /\ db.photos[last.req.photoId].votes = 1
  /\ db.users["demo"] = demoCredits - UnitCost

\* C9: a vote that costs more than the voter's balance, or that names a
\* photo that does not exist, fails and leaves every balance and every
\* tally unchanged.
VoteRefused ==
  [][ last'.op = "vote"
      => LET r == last'.req
             count == IF Len(r.amount) = 0 \/ r.amount[1] <= 0 THEN 1 ELSE r.amount[1]
         IN /\ r.photoId \notin DOMAIN db.photos
                 => (last'.resp = "Photo not found" /\ db' = db)
            /\ (r.photoId \in DOMAIN db.photos /\ count * UnitCost > db.users[r.user])
                 => (last'.resp = "Insufficient credits" /\ db' = db) ]_vars

VoteRefusedWitness ==
  /\ last.op = "vote" /\ last.resp = "Insufficient credits"
  /\ last.req.amount = <<>>
  /\ db.users[last.req.user] = 5
  /\ \A i \in DOMAIN db.photos : db.photos[i].votes = 0

\* C10: a withdrawal request adds one pending request and changes no
\* balance, and a pending request reserves nothing: a vote or a play the
\* balance covers succeeds whatever requests are pending.
RequestReservesNothing ==
  [][ /\ (last'.op = "withdraw" /\ last'.resp = "ok")
         => (/\ db'.users = db.users
             /\ Len(db'.withdraws) = Len(db.withdraws) + 1
             /\ SubSeq(db'.withdraws, 1, Len(db.withdraws)) = db.withdraws
             /\ LET w == db'.withdraws[Len(db'.withdraws)]
                IN w.status = "pending" /\ w.userId = last'.req.user
                   /\ w.amount = last'.req.amount /\ w.processedAt = 0
             /\ db' = [db EXCEPT !.withdraws = db'.withdraws])
      /\ (/\ last'.op = "vote"
          /\ last'.req.photoId \in DOMAIN db.photos
          /\ (IF Len(last'.req.amount) = 0 \/ last'.req.amount[1] <= 0
              THEN 1 ELSE last'.req.amount[1]) * UnitCost <= db.users[last'.req.user])
         => (last'.resp = "ok" /\ db'.withdraws = db.withdraws) ]_vars

RequestReservesNothingWitness ==
  /\ last.op = "vote" /\ last.resp = "ok"
  /\ \E i \in DOMAIN db.withdraws :
       /\ db.withdraws[i].status = "pending"
       /\ db.withdraws[i].userId = last.req.user
       /\ db.withdraws[i].amount > db.users[last.req.user]

\* C11: rejecting a pending request sets its status to rejected and its
\* processing timestamp to the time of the call, and changes no balance
\* and no other request.
RejectEffect ==
  [][ (/\ last'.op = "decide"
       /\ last'.req.action = "reject"
       /\ last'.req.id \in DOMAIN db.withdraws
       /\ db.withdraws[last'.req.id].status = "pending")
      => (/\ last'.resp = "ok"
          /\ db'.users = db.users
          /\ db'.withdraws = [db.withdraws EXCEPT ![last'.req.id].status = "rejected",
                                                  ![last'.req.id].processedAt = nops']
          /\ db'.withdraws[last'.req.id].processedAt > 0
          /\ db' = [db EXCEPT !.withdraws = db'.withdraws]) ]_vars

RejectEffectWitness ==
  /\ last.op = "decide" /\ last.req.action = "reject" /\ last.resp = "ok"
  /\ Len(db.withdraws) = 2
  /\ db.withdraws[last.req.id].status = "rejected"
  /\ db.withdraws[last.req.id].processedAt = nops
  /\ \E j \in DOMAIN db.withdraws : db.withdraws[j].status = "pending"
  /\ db.users["demo"] = demoCredits

\* C12: updateGameConfig changes exactly the fields its payload carries,
\* in the one configuration it names; every other field, every other
\* configuration and the rest of the store keep their values, and for a
\* game without configuration it answers not found and creates none.
PatchOnlyNamedFields ==
  [][ last'.op = "updateGameConfig"
      => LET g == last'.req.gameId
             pl == last'.req.payload
         IN IF cfgOf(db, g) = {}
            THEN last'.resp = "Game not found" /\ db' = db
            ELSE /\ last'.resp = "ok"
                 /\ Cardinality(cfgOf(db', g)) = 1
                 /\ LET cur == CHOOSE c \in cfgOf(db, g) : TRUE
                        new == CHOOSE c \in cfgOf(db', g) : TRUE
                    IN /\ new.cost = (IF pl.cost = <<>> THEN cur.cost ELSE pl.cost[1])
                       /\ new.feePercent =
                            (IF pl.feePercent = <<>> THEN cur.feePercent ELSE pl.feePercent[1])
                       /\ new.payoutMultipliers =
                            (IF pl.payoutMultipliers = <<>> THEN cur.payoutMultipliers
                             ELSE pl.payoutMultipliers[1])
                       /\ new.odds = (IF pl.odds = <<>> THEN cur.odds ELSE pl.odds[1])
                       /\ new.enabled = (IF pl.enabled = <<>> THEN cur.enabled ELSE pl.enabled[1])
                       /\ db'.gameConfigs \ {new} = db.gameConfigs \ {cur}
                 /\ db' = [db EXCEPT !.gameConfigs = db'.gameConfigs] ]_vars

PatchOnlyNamedFieldsWitness ==
  /\ last.op = "updateGameConfig" /\ last.resp = "ok"
  /\ last.req.payload.cost = <<150>>
  /\ \E c \in cfgOf(db, "game-1") :
       /\ c.cost = 150 /\ c.enabled /\ c.feePercent = 5
       /\ c.payoutMultipliers = <<3, 1, 0>> /\ c.odds = <<10, 20, 70>>
  /\ \E c \in cfgOf(db, "game-2") : c.cost = 100

\* the stores that differ from d in the odds and the feePercent of g only
OddsVariants == {<<10, 20, 70>>, <<50>>, <<>>}
FeeVariants == {0, 5, 10}
Variants(d, g) ==
  { [d EXCEPT !.gameConfigs =
       {IF c.gameId = g THEN [c EXCEPT !.odds = o, !.feePercent = f] ELSE c : c \in @}] :
    o \in OddsVariants, f \in FeeVariants }

\* C13: getGameConfig answers gameId, cost, payoutMultipliers and enabled
\* only, the same answer on every store that differs in odds and
\* feePercent only; it does not change the store, and two calls with no
\* update in between answer the same.
SafeSubsetOnly ==
  [][ last'.op = "getGameConfig"
      => LET g == last'.req.gameId IN
         /\ db' = db
         /\ last'.resp = (IF cfgOf(db, g) = {} THEN "Not found" ELSE "ok")
         /\ last'.resp = "ok" =>
              /\ DOMAIN last'.body[1] = {"gameId", "cost", "payoutMultipliers", "enabled"}
              /\ \E c \in cfgOf(db, g) :
                   /\ last'.body[1].cost = c.cost
                   /\ last'.body[1].payoutMultipliers = c.payoutMultipliers
                   /\ last'.body[1].enabled = c.enabled
         /\ \A d2 \in Variants(db, g) :
              /\ getGameConfig(d2, g).resp = last'.resp
              /\ getGameConfig(d2, g).body = last'.body
         /\ (last.op = "getGameConfig" /\ last.req.gameId = g)
              => (last'.resp = last.resp /\ last'.body = last.body) ]_vars

SafeSubsetOnlyWitness ==
  /\ last.op = "getGameConfig" /\ last.resp = "ok"
  /\ last.body[1].cost = 100
  /\ \E c \in cfgOf(db, last.req.gameId) : c.odds = <<50>> /\ c.feePercent = 10
  /\ db \notin {SeedData, ConfiguredData}

\* C14: in every reachable state the odds and the payoutMultipliers of each
\* game configuration have the same length.
ConfigAligned ==
  \A c \in db.gameConfigs : Len(c.odds) = Len(c.payoutMultipliers)

\* odds[1] + ... + odds[i]
RECURSIVE Cumulative(_, _)
Cumulative(odds, i) == IF i = 0 THEN 0 ELSE Cumulative(odds, i - 1) + odds[i]

PlayIgnoresCallerValues ==
  [][ PlayStep
      => /\ \A b \in PlayBodies :
              (b.gameId = last'.req.body.gameId /\ Len(b.cost) > 0)
              => LET alt == play(db, last'.req.user, b, last'.req.rnd, Now)
                 IN /\ alt.resp = last'.resp
                    /\ (IF alt.resp = "ok" THEN alt.db ELSE db) = db'
         /\ last'.resp = "ok"
              => "fee" \in DOMAIN db'.gamePlays[Len(db'.gamePlays)] ]_vars

\* C17: PlayRecords and FeeRecords are append-only: every persisted store
\* keeps, unmodified and in place, the records of the store before it.
AppendOnly ==
  [][ /\ Len(db'.gamePlays) >= Len(db.gamePlays)
      /\ SubSeq(db'.gamePlays, 1, Len(db.gamePlays)) = db.gamePlays
      /\ Len(db'.systemFees) >= Len(db.systemFees)
      /\ SubSeq(db'.systemFees, 1, Len(db.systemFees)) = db.systemFees ]_vars

\* the amount request w has cost its user when it stands approved
Owed(w) == IF w.status = "approved" THEN w.amount ELSE 0

\* C18: exactly-once debit: every decideWithdrawal call debits the user by
\* exactly the change of what the request owes (its amount when approved,
\* 0 otherwise), so that over any sequence of calls the total debited on
\* account of a request is its amount if it ends approved and 0 otherwise.
DebitTracksApproval ==
  [][ (last'.op = "decide" /\ last'.req.id \in DOMAIN db.withdraws)
      => LET w == db.withdraws[last'.req.id]
             w2 == db'.withdraws[last'.req.id]
         IN db.users[w.userId] - db'.users[w.userId] = Owed(w2) - Owed(w) ]_vars

\* C19: a withdrawal request whose amount is not positive or exceeds the
\* user's balance is refused and leaves the store unchanged; a request
\* that is created has a positive amount the balance covers.
RequestNeedsFunds ==
  [][ last'.op = "withdraw"
      => LET a == last'.req.amount
             bal == db.users[last'.req.user]
         IN /\ a <= 0 => (last'.resp = "Invalid amount" /\ db' = db)
            /\ (a > 0 /\ a > bal) => (last'.resp = "Insufficient credits" /\ db' = db)
            /\ (a > 0 /\ a <= bal) => last'.resp = "ok"
            /\ Len(db'.withdraws) > Len(db.withdraws)
                 => /\ Len(db'.withdraws) = Len(db.withdraws) + 1
                    /\ db'.withdraws[Len(db'.withdraws)].amount = a
                    /\ 0 < a /\ a <= bal ]_vars

RequestNeedsFundsWitness ==
  /\ last.op = "withdraw" /\ last.resp = "Insufficient credits"
  /\ last.req.user = "admin" /\ last.req.amount = 50
  /\ db.users["admin"] = 5
  /\ db.withdraws = <<>>

\* C20: no operation creates a game configuration; on a store without
\* configurations (the seeded store) updateGameConfig and getGameConfig
\* answer not found and no play charges a fee or records one.
NoConfigCreated ==
  [][ /\ {c.gameId : c \in db'.gameConfigs} \subseteq {c.gameId : c \in db.gameConfigs}
      /\ db.gameConfigs = {}
           => /\ db'.gameConfigs = {}
              /\ last'.op = "updateGameConfig" => (last'.resp = "Game not found" /\ db' = db)
              /\ last'.op = "getGameConfig" => (last'.resp = "Not found" /\ db' = db)
              /\ db'.systemFees = <<>>
              /\ \A i \in DOMAIN db'.gamePlays : "fee" \notin DOMAIN db'.gamePlays[i] ]_vars

NoConfigCreatedWitness ==
  /\ db.gameConfigs = {}
  /\ last.op = "updateGameConfig" /\ last.resp = "Game not found"
  /\ last.req.gameId = "game-1"
  /\ Len(db.gamePlays) = 1 /\ db.gamePlays[1].gameId = "game-1"
  /\ serial = [SeedData EXCEPT !.users = db.users, !.gamePlays = db.gamePlays]

====
